---- MODULE Spec2Model ----
(***************************************************************************)
(* Model of legalletters/dataset.py: the synthetic legal-letter dataset    *)
(* generator (fact synthesis, fact rendering, final-draft composition,     *)
(* the rough-draft defect pipeline, row assembly and CSV emission).        *)
(*                                                                         *)
(* Text.  A Python str is modelled as a sequence of words, the maximal     *)
(* runs of non-blank characters, which a single space separates.  A word   *)
(* is a sequence of atoms (a token and the punctuation glued to it), so    *)
(* that "ACL" can be found in the word "ACL,".  A line break is the word   *)
(* <<NL>>: it stands in the place of a space.  Concatenating strings with  *)
(* a space in between is concatenating word sequences; `x in text` is      *)
(* Contains.  textwrap.fill is modelled by its greedy line filling over    *)
(* the character widths of the words.                                      *)
(***************************************************************************)
EXTENDS Integers, Sequences, FiniteSets, TLC

\* ------------------------------------------------------------------ text

NL == "\n"
\* U+2014, the one non-ASCII character of the program's texts
EMDASH == "--"

\* the word that is a line break
NLW == <<NL>>

\* len() of one atom
Width(a) == IF a = EMDASH THEN 1 ELSE Len(a)

\* len() of one word
RECURSIVE WordWidth(_)
WordWidth(w) == IF w = <<>> THEN 0 ELSE Width(Head(w)) + WordWidth(Tail(w))

\* a literal run of words
W(ws) == [k \in 1..Len(ws) |-> <<ws[k]>>]

\* text + atom, with no space in between
Glue(text, atom) ==
    IF text = <<>> THEN << <<atom>> >>
    ELSE [text EXCEPT ![Len(text)] = Append(@, atom)]

\* the texts of `parts`, a single space between each two
RECURSIVE F(_)
F(parts) == IF parts = <<>> THEN <<>> ELSE Head(parts) \o F(Tail(parts))

\* {text} between two spaces of an f-string: an empty text leaves the two
\* spaces, an empty word between them
Interp(text) == IF text = <<>> THEN << <<>> >> ELSE text

\* ", ".join(items)
CommaJoin(items) ==
    F([k \in 1..Len(items) |->
          IF k < Len(items) THEN Glue(items[k], ",") ELSE items[k]])

IsPrefix(p, w) == Len(p) <= Len(w) /\ SubSeq(w, 1, Len(p)) = p
IsSuffix(p, w) ==
    Len(p) <= Len(w) /\ SubSeq(w, Len(w) - Len(p) + 1, Len(w)) = p
IsInfix(p, w) ==
    \E k \in 1..(Len(w) - Len(p) + 1) : SubSeq(w, k, k + Len(p) - 1) = p

\* the phrase starts at word k of the text
OccursAt(text, phrase, k) ==
    LET n == Len(phrase)
    IN  IF n = 1 THEN IsInfix(phrase[1], text[k])
        ELSE /\ IsSuffix(phrase[1], text[k])
             /\ \A j \in 2..(n - 1) : text[k + j - 1] = phrase[j]
             /\ IsPrefix(phrase[n], text[k + n - 1])

Occurrences(text, phrase) ==
    {k \in 1..(Len(text) - Len(phrase) + 1) : OccursAt(text, phrase, k)}

\* `phrase in text`, phrase not empty
Contains(text, phrase) == Occurrences(text, phrase) # {}

\* text.count(phrase)
Count(text, phrase) == Cardinality(Occurrences(text, phrase))

\* the text with its line breaks read as spaces
Unwrapped(text) == SelectSeq(text, LAMBDA w : w # NLW)

\* atoms after which textwrap's wordsep_re splits a hyphenated word: the
\* word that follows is not separated by a space
BreakAfter == {"peer-"}

Gap(w) == IF w # <<>> /\ w[Len(w)] \in BreakAfter THEN 0 ELSE 1

\* TextWrapper._wrap_chunks, one line: the last word of the line that
\* holds words up to j in `used` columns.  No word of the program's texts
\* is wider than a line, so _handle_long_word never cuts one.
RECURSIVE LineEnd(_, _, _, _)
LineEnd(text, j, used, width) ==
    IF j = Len(text) THEN j
    ELSE LET need == used + Gap(text[j]) + WordWidth(text[j + 1])
         IN  IF need <= width THEN LineEnd(text, j + 1, need, width) ELSE j

\* the lines from word k on, joined by "\n"
RECURSIVE WrapFrom(_, _, _)
WrapFrom(text, k, width) ==
    IF k > Len(text) THEN <<>>
    ELSE LET e == LineEnd(text, k, WordWidth(text[k]), width)
         IN  SubSeq(text, k, e) \o
             (IF e < Len(text) THEN <<NLW>> \o WrapFrom(text, e + 1, width)
              ELSE <<>>)

\* textwrap.fill(text, width)
Fill(text, width) == WrapFrom(text, 1, width)

\* ---------------------------------------------------------------- config

VISA_TYPES == <<"EB-1A", "O-1A", "NIW">>

\* a visa category as a text
Visa(v) == << <<v>> >>

FIELDS ==
    << W(<<"computer", "vision">>), W(<<"computational", "biology">>),
       W(<<"robotics">>), W(<<"NLP">>), W(<<"theoretical", "CS">>), W(<<"HCI">>),
       W(<<"cybersecurity">>) >>

\* noise knobs, in percent
P_OMIT_KEY_FACT == 30
P_WRONG_COUNT == 20
P_HALLUCINATION == 12
P_WEAK_VISA_MENTION == 50
P_STYLE_WEAK == 60
P_SECTION_MISS == 25
\* the gates whose probability is written in mk_rough_draft itself
P_DROP_AWARDS == 70
P_LOSE_INTRO == 50
P_MISNAME == 8
P_PASSIVE == 35

PUB_RANGE == <<8, 80>>
CITATION_RANGE == <<200, 5000>>

AWARD_POOL ==
    << W(<<"ACM", "Best", "Paper", "Award">>), W(<<"IEEE", "Fellow">>),
       W(<<"Sloan", "Fellowship">>), W(<<"NSF", "CAREER", "Award">>),
       W(<<"Turing", "Award", "nomination">>), W(<<"AAAI", "Fellow">>),
       W(<<"ACL", "Best", "Paper", "Award">>),
       W(<<"NeurIPS", "Outstanding", "Paper">>), W(<<"ICLR", "Spotlight">>) >>

VENUE_POOL ==
    << W(<<"NeurIPS">>), W(<<"ICML">>), W(<<"CVPR">>), W(<<"ACL">>),
       W(<<"EMNLP">>), W(<<"KDD">>), W(<<"AAAI">>), W(<<"ICLR">>) >>

ORG_POOL ==
    << W(<<"MIT">>), W(<<"Stanford">>), W(<<"CMU">>), W(<<"Berkeley">>),
       W(<<"Google", "DeepMind">>), W(<<"Microsoft", "Research">>),
       W(<<"OpenAI">>), W(<<"Caltech">>) >>

TITLE_POOL ==
    << W(<<"Professor">>), W(<<"Associate", "Professor">>),
       W(<<"Research", "Scientist">>), W(<<"Principal", "Scientist">>),
       W(<<"Chair">>), W(<<"Director">>) >>

\* a fabricated list that borrows an entry of the real award pool
FAKE_AWARDS_borrowed ==
    << W(<<"Best", "Innovator", "2022">>), AWARD_POOL[2],
       W(<<"World", "AI", "Medal">>) >>

\* the fabricated awards of the hallucination gate
FAKE_AWARDS ==
    << W(<<"Best", "Innovator", "2022">>), W(<<"Global", "Genius", "Prize">>),
       W(<<"World", "AI", "Medal">>) >>

\* ------------------------------------------------------------ data model

Person(full_name, affiliation, title) ==
    [full_name |-> full_name, affiliation |-> affiliation, title |-> title]

BeneficiaryFacts(name, field, pubs, citations, key_awards, key_venues) ==
    [name |-> name, field |-> field, pubs |-> pubs, citations |-> citations,
     key_awards |-> key_awards, key_venues |-> key_venues]

Record(case_id, visa, bstr, rstr, rough_draft, final_draft) ==
    [case_id |-> case_id, visa_type |-> visa, beneficiary_data |-> bstr,
     recommender_data |-> rstr, rough_draft |-> rough_draft,
     final_draft |-> final_draft]

\* str(n) inside an f-string
Str(n) == << <<ToString(n)>> >>

\* f"Dr. Alex {i}"
BeneficiaryName(n) == W(<<"Dr.", "Alex">>) \o Str(n)

\* f"Dr. Jordan {i}"
RecommenderName(n) == W(<<"Dr.", "Jordan">>) \o Str(n)

\* ------------------------------------------------------------- rendering

\* the awards joined without the fallback for an empty list
facts_to_string_joined(bf) ==
    LET awards == CommaJoin(bf.key_awards)
        venues == CommaJoin(bf.key_venues)
    IN  Fill(F(<< bf.name, W(<<"works", "in">>), Glue(bf.field, "."),
                  W(<<"Publications:">>), Glue(Str(bf.pubs), "."),
                  W(<<"Citations:">>), Glue(Str(bf.citations), "."),
                  W(<<"Awards:">>), Glue(awards, "."),
                  W(<<"Key", "venues:">>), Glue(venues, ".") >>), 120)

facts_to_string(bf) ==
    LET awards == IF bf.key_awards # <<>> THEN CommaJoin(bf.key_awards)
                  ELSE << <<EMDASH>> >>
        venues == CommaJoin(bf.key_venues)
    IN  Fill(F(<< bf.name, W(<<"works", "in">>), Glue(bf.field, "."),
                  W(<<"Publications:">>), Glue(Str(bf.pubs), "."),
                  W(<<"Citations:">>), Glue(Str(bf.citations), "."),
                  W(<<"Awards:">>), Glue(awards, "."),
                  W(<<"Key", "venues:">>), Glue(venues, ".") >>), 120)

recommender_to_string(p) ==
    CommaJoin(<< p.full_name, p.title, p.affiliation >>)

legal_intro(visa, p, bf) ==
    F(<< W(<<"I", "am", "honored", "to", "recommend">>), bf.name,
         W(<<"for", "the">>), Visa(visa), W(<<"visa", "category.", "As">>),
         p.title, W(<<"at">>), Glue(p.affiliation, ","),
         W(<<"I", "have", "closely", "followed">>), Glue(bf.name, "'s"),
         W(<<"work", "in">>), Glue(bf.field, ".") >>)

\* the awards sentence naming key_awards[0] alone
legal_evidence_first_award(bf) ==
    LET first == F(<< bf.name, W(<<"has", "authored">>), Str(bf.pubs),
                      W(<<"peer-", "reviewed", "publications", "with",
                          "approximately">>),
                      Str(bf.citations), W(<<"citations.">>) >>)
        notably == F(<< W(<<"Notably,">>), bf.name, W(<<"received">>),
                        Glue(bf.key_awards[1], ".") >>)
        last == F(<< Glue(bf.name, "'s"), W(<<"research", "appears", "at">>),
                     Interp(CommaJoin(bf.key_venues)),
                     W(<<"and", "is", "widely", "recognized", "in">>),
                     Glue(bf.field, ".") >>)
    IN  IF bf.key_awards # <<>> THEN F(<<first, notably, last>>)
        ELSE F(<<first, last>>)

legal_evidence(bf) ==
    LET first == F(<< bf.name, W(<<"has", "authored">>), Str(bf.pubs),
                      W(<<"peer-", "reviewed", "publications", "with",
                          "approximately">>),
                      Str(bf.citations), W(<<"citations.">>) >>)
        notably == F(<< W(<<"Notably,">>), bf.name, W(<<"received">>),
                        Glue(CommaJoin(bf.key_awards), ".") >>)
        last == F(<< Glue(bf.name, "'s"), W(<<"research", "appears", "at">>),
                     Interp(CommaJoin(bf.key_venues)),
                     W(<<"and", "is", "widely", "recognized", "in">>),
                     Glue(bf.field, ".") >>)
    IN  IF bf.key_awards # <<>> THEN F(<<first, notably, last>>)
        ELSE F(<<first, last>>)

legal_closing(bf) ==
    F(<< W(<<"In", "summary,">>), bf.name,
         W(<<"demonstrates", "sustained", "national", "and", "international",
             "acclaim.", "I", "strongly", "endorse", "this", "petition", "and",
             "am", "available", "for", "any", "additional", "information.">>) >>)

\* "\n\n".join(textwrap.fill(p, width=110) for p in paragraphs)
mk_final_draft(visa, p, bf) ==
    Fill(legal_intro(visa, p, bf), 110) \o <<NLW, NLW>>
        \o Fill(legal_evidence(bf), 110) \o <<NLW, NLW>>
        \o Fill(legal_closing(bf), 110)

\* ----------------------------------------------------------------- state

VARIABLES
    cfg,            \* the CONFIG block: n_rows and the five value pools
    seed,           \* the argument of random.seed, or FREE
    rng,            \* state of the shared generator of module random
    pc,             \* position in the program
    i,              \* loop index of make_rows
    visa_type, b, r,        \* the case being built
    draws,          \* the draws of the current case, in order, with their site
    chunks,         \* mk_rough_draft's list of segments
    beneficiary_str, recommender_str, rough, final,  \* build_strings' results
    rows,           \* make_rows' list of Records
    csv,            \* the rows DictWriter has written
    run, first_rough        \* which run of mk_rough_draft, and the first result

vars == <<cfg, seed, rng, pc, i, visa_type, b, r, draws, chunks,
          beneficiary_str, recommender_str, rough, final, rows, csv,
          run, first_rough>>

Min(x, y) == IF x <= y THEN x ELSE y
Max(x, y) == IF x >= y THEN x ELSE y

Prefix(s, n) == SubSeq(s, 1, Min(n, Len(s)))

\* --------------------------------------------------------- module random
\* The generator is a deterministic function of its seed.  With seed FREE
\* every outcome of every draw is explored; with a number the draws follow
\* one fixed stream (a small linear congruential generator stands for the
\* Mersenne Twister).  A draw yields [val, rng]: the value and the
\* generator afterwards.

\* the state of the generator when its seed is left open
FREE == -1

\* as FREE, and randint explores its whole range
FULL == -2

\* how many values at each end of a randint range the free generator explores
MaxSpread == 2

LcgModulus == 1024
LcgNext(g) == (g * 21 + 7) % LcgModulus
LcgBits(g) == g \div 4

\* random.random() < p, p in percent
RandomLess(g, p) ==
    IF g \in {FREE, FULL}
    THEN {[val |-> v, rng |-> g] :
             v \in {x \in BOOLEAN : (x => p > 0) /\ (~x => p < 100)}}
    ELSE {[val |-> (LcgBits(g) % 100) < p, rng |-> LcgNext(g)]}

\* random.randint(lo, hi), both ends included
Randint(g, lo, hi) ==
    IF g = FREE
    THEN {[val |-> v, rng |-> g] :
             v \in (lo..Min(hi, lo + MaxSpread - 1))
                       \cup (Max(lo, hi - MaxSpread + 1)..hi)}
    ELSE IF g = FULL
    THEN {[val |-> v, rng |-> g] : v \in lo..hi}
    ELSE {[val |-> lo + (LcgBits(g) % (hi - lo + 1)), rng |-> LcgNext(g)]}

\* Random._randbelow(n), n >= 1
Randbelow(g, n) ==
    IF g \in {FREE, FULL}
    THEN {[val |-> v, rng |-> g] : v \in 0..(n - 1)}
    ELSE {[val |-> LcgBits(g) % n, rng |-> LcgNext(g)]}

\* random.choice(seq), seq not empty
Choice(g, seq) ==
    {[val |-> seq[d.val + 1], rng |-> d.rng] : d \in Randbelow(g, Len(seq))}

\* random.sample(population, k) for a population of at most 21 entries:
\* k draws, each moving the last live entry into the slot just taken.
\* [val, rng, err]; err is the ValueError of a k outside 0..len(population)
RECURSIVE SampleLoop(_, _, _, _)
SampleLoop(g, pool, k, result) ==
    IF Len(result) = k THEN {[val |-> result, rng |-> g, err |-> FALSE]}
    ELSE LET n == Len(pool)
         IN  UNION { SampleLoop(d.rng,
                                SubSeq([pool EXCEPT ![d.val + 1] = pool[n]],
                                       1, n - 1),
                                k, Append(result, pool[d.val + 1])) :
                     d \in Randbelow(g, n) }

Sample(g, population, k) ==
    IF k < 0 \/ k > Len(population)
    THEN {[val |-> <<>>, rng |-> g, err |-> TRUE]}
    ELSE SampleLoop(g, population, k, <<>>)

\* --------------------------------------------------------------- helpers

\* the sample size not capped by the pool size
choice_no_replacement_uncapped(g, pool, k) == Sample(g, pool, k)

choice_no_replacement(g, pool, k) == Sample(g, pool, Min(k, Len(pool)))

Draw(site, val) == [site |-> site, val |-> val]

\* the draw at `site` came out as `val` in the current case
Drew(site, val) ==
    \E k \in 1..Len(draws) : draws[k].site = site /\ draws[k].val = val

NoFacts == BeneficiaryFacts(<<>>, <<>>, 0, 0, <<>>, <<>>)
NoPerson == Person(<<>>, <<>>, <<>>)

\* -------------------------------------------------------- fact synthesis

\* the upper end taken as exclusive and so pushed by one
DrawPubs_past_end(g) == Randint(g, PUB_RANGE[1], PUB_RANGE[2] + 1)

\* pubs = random.randint(*PUB_RANGE)
DrawPubs(g) == Randint(g, PUB_RANGE[1], PUB_RANGE[2])

\* citations = random.randint(*CITATION_RANGE)
DrawCitations(g) == Randint(g, CITATION_RANGE[1], CITATION_RANGE[2])

\* mk_beneficiary(i): five draws in source order; a ValueError of the
\* sampling aborts the program
MkBeneficiary ==
    /\ pc = "mk_beneficiary"
    /\ \E f \in Choice(rng, cfg.fields) :
       \E p \in DrawPubs(f.rng) :
       \E c \in DrawCitations(p.rng) :
       \E ka \in Randint(c.rng, 0, 2) :
       \E aw \in choice_no_replacement(ka.rng, cfg.award_pool, ka.val) :
       \E kv \in Randint(aw.rng, 1, 3) :
       \E ve \in choice_no_replacement(kv.rng, cfg.venue_pool, kv.val) :
          /\ rng' = ve.rng
          /\ draws' = draws \o << Draw("field", f.val), Draw("pubs", p.val),
                                  Draw("citations", c.val),
                                  Draw("awards_k", ka.val),
                                  Draw("venues_k", kv.val) >>
          /\ IF aw.err \/ ve.err
             THEN /\ pc' = "error"
                  /\ b' = b
             ELSE /\ pc' = "mk_recommender"
                  /\ b' = BeneficiaryFacts(BeneficiaryName(i), f.val, p.val,
                                           c.val, aw.val, ve.val)
    /\ UNCHANGED <<cfg, seed, i, visa_type, r, chunks, beneficiary_str,
                   recommender_str, rough, final, rows, csv, run, first_rough>>

\* mk_recommender(i)
MkRecommender ==
    /\ pc = "mk_recommender"
    /\ \E a \in Choice(rng, cfg.org_pool) :
       \E t \in Choice(a.rng, cfg.title_pool) :
          /\ rng' = t.rng
          /\ draws' = draws \o << Draw("affiliation", a.val),
                                  Draw("title", t.val) >>
          /\ r' = Person(RecommenderName(i), a.val, t.val)
    /\ pc' = "facts_to_string"
    /\ UNCHANGED <<cfg, seed, i, visa_type, b, chunks, beneficiary_str,
                   recommender_str, rough, final, rows, csv, run, first_rough>>

\* ----------------------------------------------------- build_strings, 1

\* beneficiary_str = facts_to_string(b)
FactsToString ==
    /\ pc = "facts_to_string"
    /\ beneficiary_str' = facts_to_string(b)
    /\ pc' = "recommender_to_string"
    /\ UNCHANGED <<cfg, seed, rng, i, visa_type, b, r, draws, chunks,
                   recommender_str, rough, final, rows, csv, run, first_rough>>

\* recommender_str = recommender_to_string(r)
RecommenderToString ==
    /\ pc = "recommender_to_string"
    /\ recommender_str' = recommender_to_string(r)
    /\ pc' = "mk_rough_draft"
    /\ UNCHANGED <<cfg, seed, rng, i, visa_type, b, r, draws, chunks,
                   beneficiary_str, rough, final, rows, csv, run, first_rough>>

\* --------------------------------------------------------- rough draft

WeakIntro(bf) ==
    F(<< W(<<"I", "am", "writing", "to", "recommend">>), Glue(bf.name, "."),
         bf.name, W(<<"is", "a", "talented", "researcher", "in">>),
         Glue(bf.field, ".") >>)

\* the weak evidence naming the awards of the facts as well
WeakEvidence_with_awards(bf) ==
    F(<< W(<<"They", "have", "many", "publications", "and", "their", "work",
             "is", "known", "at", "venues", "like">>),
         Glue(CommaJoin(bf.key_venues), "."), CommaJoin(bf.key_awards) >>)

WeakEvidence(bf) ==
    F(<< W(<<"They", "have", "many", "publications", "and", "their", "work",
             "is", "known", "at", "venues", "like">>),
         Glue(CommaJoin(bf.key_venues), ".") >>)

WeakClosing ==
    W(<<"I", "believe", "they", "are", "qualified", "for", "the", "visa.">>)

\* the segment list kept from one call to the next
BaseChunks_kept(bf) ==
    IF chunks # <<>> THEN chunks
    ELSE << WeakIntro(bf), WeakEvidence(bf), WeakClosing >>

\* chunks = [intro, evidence, closing]
BaseChunks(bf) == << WeakIntro(bf), WeakEvidence(bf), WeakClosing >>

VagueClosing ==
    W(<<"I", "believe", "they", "are", "highly", "qualified.">>)

\* the closing with the visa category left out of the interpolation
VisaClosing_generic(visa) ==
    F(<< W(<<"I", "believe", "they", "are", "qualified", "for", "the">>),
         W(<<"visa.">>) >>)

\* f"I believe they are qualified for the {visa} visa."
VisaClosing(visa) ==
    F(<< W(<<"I", "believe", "they", "are", "qualified", "for", "the">>),
         Visa(visa), W(<<"visa.">>) >>)

GenericNoAwards ==
    W(<<"They", "have", "many", "publications", "and", "are", "recognized",
        "in", "their", "field.">>)

GenericNoVenues ==
    W(<<"Their", "work", "is", "recognized", "at", "top", "venues.">>)

\* f" They have around {n} publications."
CountSentence(n) ==
    F(<< W(<<"They", "have", "around">>), Str(n), W(<<"publications.">>) >>)

\* f" They also received the {fake_award}."
FakeAwardSentence(fake_award) ==
    F(<< W(<<"They", "also", "received", "the">>), Glue(fake_award, ".") >>)

FillerOpening ==
    W(<<"I", "am", "pleased", "to", "write", "this", "letter.", "It", "is",
        "my", "pleasure", "to", "write", "this", "letter.">>)

PassiveFiller ==
    W(<<"Their", "contributions", "have", "been", "considered", "impactful",
        "by", "many,", "in", "ways", "that", "are", "thought", "to", "be",
        "significant.">>)

\* chunks[-1] = text
SetLast(cs, text) == [cs EXCEPT ![Len(cs)] = text]

\* chunks[1] = text
SetEvidence(cs, text) == [cs EXCEPT ![2] = text]

\* chunks[1] += " " + text
AppendEvidence(cs, text) == [cs EXCEPT ![2] = @ \o text]

\* chunks.insert(0, text)
InsertFirst(cs, text) == <<text>> \o cs

\* chunks.pop(0)
PopFirst(cs) == Tail(cs)

\* chunks[:-1]
DropLast(cs) == SubSeq(cs, 1, Len(cs) - 1)

\* [v for v in VISA_TYPES if v != visa_type]
OtherVisas(visa) == SelectSeq(VISA_TYPES, LAMBDA v : v # visa)

\* the corrupted count without its floor of 1
maybe_wrong_count_unfloored(g, true_val) ==
    UNION { { [val |-> true_val + s.val, rng |-> s.rng,
               delta |-> d.val] :
              s \in Choice(d.rng, << 0 - d.val, d.val >>) } :
            d \in Randint(g, 5, 20) }

\* maybe_wrong_count(true_val): [val, rng, delta, sign]
maybe_wrong_count(g, true_val) ==
    UNION { { [val |-> Max(1, true_val + s.val), rng |-> s.rng,
               delta |-> d.val] :
              s \in Choice(d.rng, << 0 - d.val, d.val >>) } :
            d \in Randint(g, 5, 20) }

RoughFrame ==
    UNCHANGED <<cfg, seed, i, visa_type, b, r, beneficiary_str,
                recommender_str, final, rows, csv, run, first_rough>>

\* intro, evidence, closing; chunks = [intro, evidence, closing]
RoughStart ==
    /\ pc = "mk_rough_draft"
    /\ chunks' = BaseChunks(b)
    /\ pc' = "weak_visa"
    /\ UNCHANGED <<rng, draws, rough>>
    /\ RoughFrame

\* if random.random() < P_WEAK_VISA_MENTION: ... else: ...
WeakVisaGate ==
    /\ pc = "weak_visa"
    /\ \E d \in RandomLess(rng, P_WEAK_VISA_MENTION) :
          /\ chunks' = SetLast(chunks, IF d.val THEN VagueClosing
                                       ELSE VisaClosing(visa_type))
          /\ draws' = Append(draws, Draw("weak_visa", d.val))
          /\ rng' = d.rng
    /\ pc' = "omit_key_fact"
    /\ UNCHANGED rough
    /\ RoughFrame

\* if random.random() < P_OMIT_KEY_FACT: the second draw is made only for
\* facts with awards (`and` short-circuits)
OmitKeyFactGate ==
    /\ pc = "omit_key_fact"
    /\ \E d \in RandomLess(rng, P_OMIT_KEY_FACT) :
          IF ~d.val
          THEN /\ chunks' = chunks
               /\ draws' = Append(draws, Draw("omit_key_fact", FALSE))
               /\ rng' = d.rng
          ELSE IF b.key_awards = <<>>
          THEN /\ chunks' = SetEvidence(chunks, GenericNoVenues)
               /\ draws' = Append(draws, Draw("omit_key_fact", TRUE))
               /\ rng' = d.rng
          ELSE \E e \in RandomLess(d.rng, P_DROP_AWARDS) :
               /\ chunks' = SetEvidence(chunks, IF e.val THEN GenericNoAwards
                                                ELSE GenericNoVenues)
               /\ draws' = draws \o << Draw("omit_key_fact", TRUE),
                                       Draw("drop_awards", e.val) >>
               /\ rng' = e.rng
    /\ pc' = "wrong_count"
    /\ UNCHANGED rough
    /\ RoughFrame

\* if random.random() < P_WRONG_COUNT: ... else: ...
WrongCountGate ==
    /\ pc = "wrong_count"
    /\ \E d \in RandomLess(rng, P_WRONG_COUNT) :
          IF d.val
          THEN \E w \in maybe_wrong_count(d.rng, b.pubs) :
               /\ chunks' = AppendEvidence(chunks, CountSentence(w.val))
               /\ draws' = draws \o << Draw("wrong_count", TRUE),
                                       Draw("wrong_pubs", w.val) >>
               /\ rng' = w.rng
          ELSE /\ chunks' = AppendEvidence(chunks, CountSentence(b.pubs))
               /\ draws' = Append(draws, Draw("wrong_count", FALSE))
               /\ rng' = d.rng
    /\ pc' = "hallucination"
    /\ UNCHANGED rough
    /\ RoughFrame

\* if random.random() < P_HALLUCINATION:
HallucinationGate ==
    /\ pc = "hallucination"
    /\ \E d \in RandomLess(rng, P_HALLUCINATION) :
          IF d.val
          THEN \E fake \in Choice(d.rng, FAKE_AWARDS) :
               /\ chunks' = AppendEvidence(chunks, FakeAwardSentence(fake.val))
               /\ draws' = draws \o << Draw("hallucination", TRUE),
                                       Draw("fake_award", fake.val) >>
               /\ rng' = fake.rng
          ELSE /\ chunks' = chunks
               /\ draws' = Append(draws, Draw("hallucination", FALSE))
               /\ rng' = d.rng
    /\ pc' = "style_weak"
    /\ UNCHANGED rough
    /\ RoughFrame

\* if random.random() < P_STYLE_WEAK: chunks.insert(0, ...)
StyleWeakGate ==
    /\ pc = "style_weak"
    /\ \E d \in RandomLess(rng, P_STYLE_WEAK) :
          /\ chunks' = IF d.val THEN InsertFirst(chunks, FillerOpening)
                       ELSE chunks
          /\ draws' = Append(draws, Draw("style_weak", d.val))
          /\ rng' = d.rng
    /\ pc' = "section_miss"
    /\ UNCHANGED rough
    /\ RoughFrame

\* the list after `if random.random() < 0.5 and len(chunks) > 2:
\* chunks.pop(0) else: chunks = chunks[:-1]`, coin the outcome of the draw
SectionMiss(cs, coin) ==
    IF coin /\ Len(cs) > 2 THEN PopFirst(cs) ELSE DropLast(cs)

\* if random.random() < P_SECTION_MISS:
SectionMissGate ==
    /\ pc = "section_miss"
    /\ \E d \in RandomLess(rng, P_SECTION_MISS) :
          IF d.val
          THEN \E coin \in RandomLess(d.rng, P_LOSE_INTRO) :
               /\ chunks' = SectionMiss(chunks, coin.val)
               /\ draws' = draws \o << Draw("section_miss", TRUE),
                                       Draw("lose_intro", coin.val) >>
               /\ rng' = coin.rng
          ELSE /\ chunks' = chunks
               /\ draws' = Append(draws, Draw("section_miss", FALSE))
               /\ rng' = d.rng
    /\ pc' = "misname"
    /\ UNCHANGED rough
    /\ RoughFrame

\* chunks[-1] = f"I believe they are qualified for the {wrong_visa} visa."
Misname(cs, wrong_visa) == SetLast(cs, VisaClosing(wrong_visa))

\* if random.random() < 0.08:
MisnameGate ==
    /\ pc = "misname"
    /\ \E d \in RandomLess(rng, P_MISNAME) :
          IF d.val
          THEN \E wrong \in Choice(d.rng, OtherVisas(visa_type)) :
               /\ chunks' = Misname(chunks, wrong.val)
               /\ draws' = draws \o << Draw("misname", TRUE),
                                       Draw("wrong_visa", wrong.val) >>
               /\ rng' = wrong.rng
          ELSE /\ chunks' = chunks
               /\ draws' = Append(draws, Draw("misname", FALSE))
               /\ rng' = d.rng
    /\ pc' = "passive"
    /\ UNCHANGED rough
    /\ RoughFrame

\* the passive filler appended whatever the draw
Body_always_filler(cs, passive) == F(cs) \o PassiveFiller

\* body = " ".join(chunks), plus the filler when passive
Body(cs, passive) ==
    F(cs) \o (IF passive THEN PassiveFiller ELSE <<>>)

\* body = " ".join(chunks); if random.random() < 0.35: body += ...;
\* return textwrap.fill(body, width=110)
PassiveGate ==
    /\ pc = "passive"
    /\ \E d \in RandomLess(rng, P_PASSIVE) :
          /\ rough' = Fill(Body(chunks, d.val), 110)
          /\ draws' = Append(draws, Draw("passive", d.val))
          /\ rng' = d.rng
    /\ pc' = "mk_final_draft"
    /\ UNCHANGED chunks
    /\ RoughFrame

MkRoughDraft ==
    \/ RoughStart
    \/ WeakVisaGate
    \/ OmitKeyFactGate
    \/ WrongCountGate
    \/ HallucinationGate
    \/ StyleWeakGate
    \/ SectionMissGate
    \/ MisnameGate
    \/ PassiveGate

\* ----------------------------------------------------- build_strings, 2

\* final = mk_final_draft(visa_type, r, b)
MkFinalDraft ==
    /\ pc = "mk_final_draft"
    /\ final' = mk_final_draft(visa_type, r, b)
    /\ pc' = "append"
    /\ UNCHANGED <<cfg, seed, rng, i, visa_type, b, r, draws, chunks,
                   beneficiary_str, recommender_str, rough, rows, csv,
                   run, first_rough>>

\* -------------------------------------------------- make_rows, write_csv

\* the id numbered from zero
CaseId_from_zero(n) == "case_" \o ToString(n - 1)

\* f"case_{i}"
CaseId(n) == "case_" \o ToString(n)

\* for i in range(1, n_rows + 1): visa = random.choice(VISA_TYPES)
PickVisa ==
    /\ pc = "make_rows"
    /\ i <= cfg.n_rows
    /\ \E v \in Choice(rng, VISA_TYPES) :
          /\ visa_type' = v.val
          /\ rng' = v.rng
          /\ draws' = << Draw("visa", v.val) >>
    /\ pc' = "mk_beneficiary"
    /\ UNCHANGED <<cfg, seed, i, b, r, chunks, beneficiary_str,
                   recommender_str, rough, final, rows, csv, run, first_rough>>

\* rows.append(Record(...)), and the loop's next index
AppendRow ==
    /\ pc = "append"
    /\ rows' = Append(rows, Record(CaseId(i), visa_type, beneficiary_str,
                                   recommender_str, rough, final))
    /\ i' = i + 1
    /\ pc' = "make_rows"
    /\ UNCHANGED <<cfg, seed, rng, visa_type, b, r, draws, chunks,
                   beneficiary_str, recommender_str, rough, final, csv,
                   run, first_rough>>

\* the loop is exhausted: return rows, and main calls write_csv(rows, ...)
ReturnRows ==
    /\ pc = "make_rows"
    /\ i > cfg.n_rows
    /\ pc' = "write_csv"
    /\ UNCHANGED <<cfg, seed, rng, i, visa_type, b, r, draws, chunks,
                   beneficiary_str, recommender_str, rough, final, rows, csv,
                   run, first_rough>>

FIELDNAMES ==
    << "case_id", "visa_type", "beneficiary_data", "recommender_data",
       "rough_draft", "final_draft" >>

\* the cells DictWriter.writerow takes from asdict(r), in fieldnames order
CsvRow(rec) == [k \in 1..Len(FIELDNAMES) |-> rec[FIELDNAMES[k]]]

\* writer.writeheader()
WriteHeader ==
    /\ pc = "write_csv"
    /\ csv' = << FIELDNAMES >>
    /\ pc' = "write_rows"
    /\ UNCHANGED <<cfg, seed, rng, i, visa_type, b, r, draws, chunks,
                   beneficiary_str, recommender_str, rough, final, rows,
                   run, first_rough>>

\* the Record the loop of write_csv writes next: csv holds the header and
\* one row for each Record written
NextToWrite(written) == rows[Len(written)]

\* for r in rows: writer.writerow(asdict(r))
WriteRow ==
    /\ pc = "write_rows"
    /\ Len(csv) - 1 < Len(rows)
    /\ csv' = Append(csv, CsvRow(NextToWrite(csv)))
    /\ UNCHANGED <<cfg, seed, rng, pc, i, visa_type, b, r, draws, chunks,
                   beneficiary_str, recommender_str, rough, final, rows,
                   run, first_rough>>

\* the loop ends and the with block closes the file
CloseFile ==
    /\ pc = "write_rows"
    /\ Len(csv) - 1 = Len(rows)
    /\ pc' = "done"
    /\ UNCHANGED <<cfg, seed, rng, i, visa_type, b, r, draws, chunks,
                   beneficiary_str, recommender_str, rough, final, rows, csv,
                   run, first_rough>>

\* random.seed(seed) again, and a second mk_rough_draft on the same
\* arguments
Reseed ==
    /\ pc = "mk_final_draft"
    /\ run = 1
    /\ first_rough' = rough
    /\ rng' = seed
    /\ run' = 2
    /\ draws' = <<>>
    /\ pc' = "mk_rough_draft"
    /\ UNCHANGED <<cfg, seed, i, visa_type, b, r, chunks, beneficiary_str,
                   recommender_str, rough, final, rows, csv>>

\* ------------------------------------------------------------- bounds

\* how many entries of each pool the bounded configurations keep
MaxPool == 2

\* the largest n_rows explored
MaxRows == 2

\* the seeds explored besides RANDOM_SEED are 0..MaxSeed
MaxSeed == 2

\* the source's configuration
N_ROWS == 200
RANDOM_SEED == 13

DefaultCfg ==
    [n_rows |-> N_ROWS, fields |-> FIELDS, award_pool |-> AWARD_POOL,
     venue_pool |-> VENUE_POOL, org_pool |-> ORG_POOL,
     title_pool |-> TITLE_POOL]

Seeds == (0..MaxSeed) \cup {RANDOM_SEED}

Elems(s) == {s[k] : k \in 1..Len(s)}

\* all k-samples the free generator can return, k in ks
Samples(pool, ks) ==
    UNION { {x.val : x \in choice_no_replacement(FREE, pool, k)} : k \in ks }

\* both ends of an inclusive range
Ends(range) == {range[1], range[2]}

InitCommon ==
    /\ i = 1
    /\ draws = <<>>
    /\ chunks = <<>>
    /\ beneficiary_str = <<>>
    /\ recommender_str = <<>>
    /\ rough = <<>>
    /\ final = <<>>
    /\ rows = <<>>
    /\ csv = <<>>
    /\ run = 1
    /\ first_rough = <<>>

\* ---- Spec: mk_rough_draft, every outcome of every draw

\* facts as mk_beneficiary(1) can return them
RoughFacts ==
    { BeneficiaryFacts(BeneficiaryName(1), FIELDS[1], PUB_RANGE[1],
                       CITATION_RANGE[1], aw, Prefix(VENUE_POOL, MaxPool)) :
      aw \in Samples(Prefix(AWARD_POOL, 1), 0..1) }

Init ==
    /\ cfg = DefaultCfg
    /\ seed = FREE
    /\ rng = FREE
    /\ pc = "mk_rough_draft"
    /\ visa_type \in Elems(VISA_TYPES)
    /\ b \in RoughFacts
    /\ r = Person(RecommenderName(1), ORG_POOL[1], TITLE_POOL[1])
    /\ InitCommon

Next == MkRoughDraft

Spec == Init /\ [][Next]_vars

\* ---- SpecDet: mk_rough_draft twice from the same seed

InitDet ==
    /\ cfg = DefaultCfg
    /\ seed \in Seeds
    /\ rng = seed
    /\ pc = "mk_rough_draft"
    /\ visa_type \in Elems(VISA_TYPES)
    /\ b \in RoughFacts
    /\ r = Person(RecommenderName(1), ORG_POOL[1], TITLE_POOL[1])
    /\ InitCommon

NextDet == MkRoughDraft \/ Reseed

SpecDet == InitDet /\ [][NextDet]_vars

\* ---- SpecCount: mk_rough_draft up to its count gate, every publication
\* count of PUB_RANGE and every offset of maybe_wrong_count

CountFacts ==
    { BeneficiaryFacts(BeneficiaryName(1), FIELDS[1], p, CITATION_RANGE[1],
                       aw, Prefix(VENUE_POOL, MaxPool)) :
      p \in PUB_RANGE[1]..PUB_RANGE[2],
      aw \in Samples(Prefix(AWARD_POOL, 1), 0..1) }

InitCount ==
    /\ cfg = DefaultCfg
    /\ seed = FULL
    /\ rng = FULL
    /\ pc = "mk_rough_draft"
    /\ visa_type \in Elems(VISA_TYPES)
    /\ b \in CountFacts
    /\ r = Person(RecommenderName(1), ORG_POOL[1], TITLE_POOL[1])
    /\ InitCommon

NextCount ==
    \/ RoughStart
    \/ WeakVisaGate
    \/ OmitKeyFactGate
    \/ WrongCountGate

SpecCount == InitCount /\ [][NextCount]_vars

\* ---- SpecFacts: mk_beneficiary under bounded pool configurations

PoolCfgs ==
    { [DefaultCfg EXCEPT !.fields = Prefix(FIELDS, MaxPool),
                         !.award_pool = Prefix(AWARD_POOL, na),
                         !.venue_pool = Prefix(VENUE_POOL, nv)] :
      na \in 0..MaxPool, nv \in 0..MaxPool }

InitFacts ==
    /\ cfg \in PoolCfgs
    /\ seed = FREE
    /\ rng = FREE
    /\ pc = "mk_beneficiary"
    /\ visa_type = VISA_TYPES[1]
    /\ b = NoFacts
    /\ r = NoPerson
    /\ InitCommon

NextFacts == MkBeneficiary

SpecFacts == InitFacts /\ [][NextFacts]_vars

\* ---- SpecBuild: build_strings on bounded facts, one seed

BuildFacts ==
    { BeneficiaryFacts(BeneficiaryName(n), f, p, c, aw, ve) :
      n \in {1, N_ROWS}, f \in Elems(Prefix(FIELDS, MaxPool)),
      p \in Ends(PUB_RANGE), c \in Ends(CITATION_RANGE),
      aw \in Samples(Prefix(AWARD_POOL, MaxPool), 0..2),
      ve \in Samples(Prefix(VENUE_POOL, MaxPool), 1..3) }

InitBuild ==
    /\ cfg = DefaultCfg
    /\ seed = RANDOM_SEED
    /\ rng = seed
    /\ pc = "facts_to_string"
    /\ visa_type \in Elems(VISA_TYPES)
    /\ b \in BuildFacts
    /\ r = Person(RecommenderName(1), ORG_POOL[1], TITLE_POOL[1])
    /\ InitCommon

NextBuild ==
    \/ FactsToString
    \/ RecommenderToString
    \/ MkRoughDraft
    \/ MkFinalDraft

SpecBuild == InitBuild /\ [][NextBuild]_vars

\* ---- SpecRows: the whole program, for a few seeds and row counts

InitRows ==
    /\ cfg \in {[DefaultCfg EXCEPT !.n_rows = n] : n \in 0..MaxRows}
    /\ seed \in Seeds
    /\ rng = seed
    /\ pc = "make_rows"
    /\ visa_type = VISA_TYPES[1]
    /\ b = NoFacts
    /\ r = NoPerson
    /\ InitCommon

NextRows ==
    \/ PickVisa
    \/ MkBeneficiary
    \/ MkRecommender
    \/ FactsToString
    \/ RecommenderToString
    \/ MkRoughDraft
    \/ MkFinalDraft
    \/ AppendRow
    \/ ReturnRows
    \/ WriteHeader
    \/ WriteRow
    \/ CloseFile

SpecRows == InitRows /\ [][NextRows]_vars

\* ================================================================ claims

VisaSet == Elems(VISA_TYPES)

\* the draft names no visa category at all
NamesNoVisa(text) == \A v \in VisaSet : ~Contains(text, Visa(v))

\* how many fabricated award phrases the text holds
FakeCount(text) ==
    Count(text, FAKE_AWARDS[1]) + Count(text, FAKE_AWARDS[2])
        + Count(text, FAKE_AWARDS[3])

NoDup(s) == \A j, k \in 1..Len(s) : j # k => s[j] # s[k]

RoughDone == pc = "mk_final_draft"
FactsDone == pc = "mk_recommender"

\* C1: the final draft contains verbatim (on one line, word for word) the
\* publication count, the citation count, every award, every venue and the
\* visa category of its arguments.
C1_FinalDraftFaithful ==
    pc = "append" =>
        /\ Contains(final, Str(b.pubs))
        /\ Contains(final, Str(b.citations))
        /\ \A k \in 1..Len(b.key_awards) : Contains(final, b.key_awards[k])
        /\ \A k \in 1..Len(b.key_venues) : Contains(final, b.key_venues[k])
        /\ Contains(final, Visa(visa_type))

\* a final draft of facts with two awards and several venues, whose
\* evidence paragraph is wrapped over more than one line
C1_Witness ==
    /\ pc = "append"
    /\ Len(b.key_awards) = 2
    /\ Len(b.key_venues) >= 2
    /\ Count(final, <<NLW>>) >= 5

\* C2 (as claimed): when section omission fires and its coin flip drops
\* the closing, the rough draft names no visa category, whatever the other
\* gates do.
C2_NoVisaAfterDropClosing ==
    (RoughDone /\ Drew("section_miss", TRUE) /\ Drew("lose_intro", FALSE))
        => NamesNoVisa(rough)

\* C3: with the hallucination gate fired and the five other tunable gates
\* not fired, the rough draft holds exactly one fabricated award phrase and
\* no entry of the real award pool, whatever the misnaming and the passive
\* filler gates do.  A phrase is found as a sequence of words: the line
\* break textwrap may put inside it counts as the space it replaces.
C3_OnlyFabricatedAward ==
    ( /\ RoughDone
      /\ Drew("hallucination", TRUE)
      /\ Drew("weak_visa", FALSE)
      /\ Drew("omit_key_fact", FALSE)
      /\ Drew("wrong_count", FALSE)
      /\ Drew("style_weak", FALSE)
      /\ Drew("section_miss", FALSE) )
        => /\ FakeCount(Unwrapped(rough)) = 1
           /\ \A k \in 1..Len(AWARD_POOL) :
                 ~Contains(Unwrapped(rough), AWARD_POOL[k])

\* the scenario, with both fixed-probability gates fired, on facts that
\* hold a real award
C3_Witness ==
    /\ RoughDone
    /\ Drew("hallucination", TRUE)
    /\ Drew("weak_visa", FALSE)
    /\ Drew("omit_key_fact", FALSE)
    /\ Drew("wrong_count", FALSE)
    /\ Drew("style_weak", FALSE)
    /\ Drew("section_miss", FALSE)
    /\ Drew("misname", TRUE)
    /\ Drew("passive", TRUE)
    /\ b.key_awards # <<>>

\* C4 (as claimed): mk_beneficiary returns no facts record when the venue
\* pool or the award pool is empty, and every record it returns has at
\* least one venue.
C4_EmptyPoolFails ==
    FactsDone =>
        /\ cfg.venue_pool # <<>>
        /\ cfg.award_pool # <<>>
        /\ Len(b.key_venues) >= 1

\* C5: the awards and venues of a returned facts record have no duplicate,
\* come from their pools and number min(k, pool size) for the k drawn in
\* 0..2 (awards) and 1..3 (venues); no request raises an error, and one
\* larger than the pool returns the whole pool.
C5_SamplesWellFormed ==
    /\ pc # "error"
    /\ FactsDone =>
          /\ NoDup(b.key_awards)
          /\ NoDup(b.key_venues)
          /\ Elems(b.key_awards) \subseteq Elems(cfg.award_pool)
          /\ Elems(b.key_venues) \subseteq Elems(cfg.venue_pool)
          /\ \E k \in 0..2 :
                /\ Drew("awards_k", k)
                /\ Len(b.key_awards) = Min(k, Len(cfg.award_pool))
                /\ k > Len(cfg.award_pool)
                      => Elems(b.key_awards) = Elems(cfg.award_pool)
          /\ \E k \in 1..3 :
                /\ Drew("venues_k", k)
                /\ Len(b.key_venues) = Min(k, Len(cfg.venue_pool))
                /\ k > Len(cfg.venue_pool)
                      => Elems(b.key_venues) = Elems(cfg.venue_pool)

\* three venues asked of a pool of two: both are returned
C5_Witness ==
    /\ FactsDone
    /\ Len(cfg.venue_pool) = 2
    /\ Drew("venues_k", 3)
    /\ Len(b.key_venues) = 2
    /\ Len(b.key_awards) = 2

\* C6: pubs and citations of a returned facts record lie in PUB_RANGE and
\* CITATION_RANGE, ends included.
C6_CountsInRange ==
    FactsDone =>
        /\ PUB_RANGE[1] <= b.pubs /\ b.pubs <= PUB_RANGE[2]
        /\ CITATION_RANGE[1] <= b.citations
        /\ b.citations <= CITATION_RANGE[2]

\* a record at the upper end of one range and the lower end of the other
C6_Witness ==
    /\ FactsDone
    /\ b.pubs = PUB_RANGE[2]
    /\ b.citations = CITATION_RANGE[1]

\* C7: the k-th record of make_rows has case id "case_k" and a visa type
\* of the closed set, so ids are distinct and in index order; make_rows
\* returns exactly n_rows records; write_csv writes, after the header,
\* the records' cells in the same order, all of them once done.
C7_RowsInOrder ==
    /\ \A k \in 1..Len(rows) :
          /\ rows[k].case_id = "case_" \o ToString(k)
          /\ rows[k].visa_type \in VisaSet
    /\ \A j, k \in 1..Len(rows) : j # k => rows[j].case_id # rows[k].case_id
    /\ pc \in {"write_csv", "write_rows", "done"} => Len(rows) = cfg.n_rows
    /\ Len(csv) <= Len(rows) + 1
    /\ \A k \in 2..Len(csv) :
          /\ csv[k][1] = "case_" \o ToString(k - 1)
          /\ \A c \in 1..Len(FIELDNAMES) :
                csv[k][c] = rows[k - 1][FIELDNAMES[c]]
    /\ pc = "done" => Len(csv) = cfg.n_rows + 1

\* a finished run of at least two rows
C7_Witness ==
    /\ pc = "done"
    /\ Len(rows) >= 2
    /\ Len(csv) = Len(rows) + 1

\* C8: a second run of mk_rough_draft on the same arguments, after the
\* generator is seeded again with the same seed, returns the text of the
\* first run.
C8_SameSeedSameDraft ==
    (RoughDone /\ run = 2) => rough = first_rough

\* a second run in which some gate fired
C8_Witness ==
    /\ RoughDone
    /\ run = 2
    /\ \E k \in 1..Len(draws) : draws[k].val = TRUE

\* C9: facts_to_string renders the awards, between "Awards:" and "Key
\* venues:", as the placeholder dash when there are none and else
\* comma-joined in the record's order (read across the line breaks of the
\* wrapping).
C9_AwardSegment ==
    pc = "recommender_to_string" =>
        Contains(Unwrapped(beneficiary_str),
                 W(<<"Awards:">>)
                     \o Glue(IF b.key_awards = <<>> THEN << <<EMDASH>> >>
                             ELSE CommaJoin(b.key_awards), ".")
                     \o W(<<"Key", "venues:">>))

\* the rendering of a record without awards
C9_Witness ==
    /\ pc = "recommender_to_string"
    /\ b.key_awards = <<>>
    /\ Contains(beneficiary_str, W(<<"Awards:">>) \o << <<EMDASH, ".">> >>)

\* the misnaming gate fires in this step
MisnameFires ==
    /\ pc = "misname"
    /\ pc' = "passive"
    /\ draws'[Len(draws) + 1] = Draw("misname", TRUE)

\* a closing segment, as any gate leaves it
IsClosing(seg) ==
    seg \in {WeakClosing, VagueClosing} \cup {VisaClosing(v) : v \in VisaSet}

\* C10 (as claimed): a firing misnaming gate overwrites the closing
\* segment with a closing that names another visa category and leaves the
\* other segments, intro and evidence among them, as they were, whatever
\* the earlier gates did.
C10_MisnameOverwritesClosing ==
    [][ MisnameFires =>
          /\ Len(chunks') = Len(chunks)
          /\ IsClosing(chunks[Len(chunks)])
          /\ \E w \in VisaSet \ {visa_type} :
                chunks'[Len(chunks')] = VisaClosing(w)
          /\ \A k \in 1..(Len(chunks) - 1) : chunks'[k] = chunks[k] ]_vars

\* the section-omission gate fires in this step
SectionMissFires ==
    /\ pc = "section_miss"
    /\ pc' = "misname"
    /\ draws'[Len(draws) + 1] = Draw("section_miss", TRUE)

\* the list without its k-th segment
Remove(cs, k) == SubSeq(cs, 1, k - 1) \o SubSeq(cs, k + 1, Len(cs))

\* a segment that starts as one of the three evidence sentences
IsEvidence(seg) ==
    \E base \in {WeakEvidence(b), GenericNoAwards, GenericNoVenues} :
        /\ Len(seg) >= Len(base)
        /\ SubSeq(seg, 1, Len(base)) = base

\* C11 (as claimed): a firing section-omission gate removes exactly one
\* segment, the intro or the closing; the evidence segment stays and so
\* does the filler opening when the style gate fired.
C11_SectionMissDropsIntroOrClosing ==
    [][ SectionMissFires =>
          /\ \E k \in 1..Len(chunks) :
                /\ chunks' = Remove(chunks, k)
                /\ chunks[k] = WeakIntro(b) \/ IsClosing(chunks[k])
          /\ \E k \in 1..Len(chunks') : IsEvidence(chunks'[k])
          /\ Drew("style_weak", TRUE) =>
                \E k \in 1..Len(chunks') : chunks'[k] = FillerOpening ]_vars

\* the start of a publication-count statement
CountLead == W(<<"They", "have", "around">>)

\* the text ends with the statement of the count n
StatesLast(text, n) ==
    LET sentence == CountSentence(n)
    IN  /\ Len(text) >= Len(sentence)
        /\ SubSeq(text, Len(text) - Len(sentence) + 1, Len(text)) = sentence

NamesVenues(text) ==
    \A k \in 1..Len(b.key_venues) : Contains(text, b.key_venues[k])

\* C13 (as claimed): after a firing omission gate the evidence is one of
\* the two generic claims, the awards-dropping one only for facts with an
\* award and a successful sub-draw, the venue-dropping one always for
\* facts without awards; the awards-dropping one keeps the venue names;
\* without the gate firing the evidence names every venue.
C13_OnlyVenueVariantDropsVenues ==
    pc = "wrong_count" =>
        IF Drew("omit_key_fact", TRUE)
        THEN /\ chunks[2] \in {GenericNoAwards, GenericNoVenues}
             /\ chunks[2] = GenericNoAwards =>
                   b.key_awards # <<>> /\ Drew("drop_awards", TRUE)
             /\ b.key_awards = <<>> => chunks[2] = GenericNoVenues
             /\ chunks[2] = GenericNoAwards => NamesVenues(chunks[2])
        ELSE NamesVenues(chunks[2])

ClosingDropped == Drew("section_miss", TRUE) /\ Drew("lose_intro", FALSE)

\* C14: a rough draft whose visa-weakening gate fired and whose misnaming
\* gate did not names no visa category; one whose weakening gate did not
\* fire, whose closing was not dropped and whose misnaming gate did not
\* fire names the true visa category and no other.
C14_VisaMention ==
    RoughDone =>
        /\ (Drew("weak_visa", TRUE) /\ Drew("misname", FALSE))
              => NamesNoVisa(rough)
        /\ (Drew("weak_visa", FALSE) /\ ~ClosingDropped
                /\ Drew("misname", FALSE))
              => \A v \in VisaSet :
                    Contains(rough, Visa(v)) <=> v = visa_type

\* a draft that lost its intro and kept a closing naming the true visa
C14_Witness ==
    /\ RoughDone
    /\ Drew("weak_visa", FALSE)
    /\ Drew("section_miss", TRUE)
    /\ Drew("lose_intro", TRUE)
    /\ Drew("misname", FALSE)
    /\ Contains(rough, Visa(visa_type))

AllGatesFail ==
    \A site \in {"weak_visa", "omit_key_fact", "wrong_count", "hallucination",
                 "style_weak", "section_miss", "misname", "passive"} :
        Drew(site, FALSE)

\* C15: with all eight gates failing the rough draft is, up to the line
\* breaks of the wrapping, the weak intro, the weak evidence naming every
\* venue followed by the true publication count, and the closing naming
\* the true visa category, single spaces between; it holds no fabricated
\* award, no filler opening and no passive filler.
C15_CleanDraft ==
    (RoughDone /\ AllGatesFail) =>
        /\ Len(chunks) = 3
        /\ Unwrapped(rough)
              = F(<< WeakIntro(b),
                     WeakEvidence(b) \o CountSentence(b.pubs),
                     VisaClosing(visa_type) >>)
        /\ NamesVenues(Unwrapped(rough))
        /\ FakeCount(Unwrapped(rough)) = 0
        /\ ~Contains(Unwrapped(rough), FillerOpening)
        /\ ~Contains(Unwrapped(rough), PassiveFiller)

\* a finished draft of facts with an award, no gate fired
C15_Witness ==
    /\ RoughDone
    /\ AllGatesFail
    /\ b.key_awards # <<>>
    /\ rough # <<>>

\* C16 (as claimed): every rough draft holds exactly one publication-count
\* statement, in an evidence segment that survived all gates.
C16_EvidenceSurvives ==
    RoughDone =>
        /\ \E k \in 1..Len(chunks) :
              IsEvidence(chunks[k]) /\ Count(chunks[k], CountLead) = 1
        /\ Count(Unwrapped(rough), CountLead) = 1

\* C17: whatever the gates do, a rough draft names no award of the facts
\* (nor any of the real pool), holds at most one fabricated award phrase,
\* and holds one only if the hallucination gate fired.  Phrases are read
\* across the line breaks of the wrapping.
C17_NoRealAward ==
    RoughDone =>
        /\ \A k \in 1..Len(b.key_awards) :
              ~Contains(Unwrapped(rough), b.key_awards[k])
        /\ \A k \in 1..Len(AWARD_POOL) :
              ~Contains(Unwrapped(rough), AWARD_POOL[k])
        /\ FakeCount(Unwrapped(rough)) <= 1
        /\ FakeCount(Unwrapped(rough)) = 1 => Drew("hallucination", TRUE)

\* facts with an award, the omission gate fired on its awards variant and
\* a fabricated award added
C17_Witness ==
    /\ RoughDone
    /\ b.key_awards # <<>>
    /\ Drew("drop_awards", TRUE)
    /\ Drew("hallucination", TRUE)
    /\ FakeCount(Unwrapped(rough)) = 1

====
